---- MODULE Spec2Model ----
(***************************************************************************)
(* Model of src/rle.py: the run-length tree (Pixel, Repeat), its binary    *)
(* codec (Pixel.encode, Repeat.encode, DecodeBytes), the flattener (gen)   *)
(* and the template walk (TemplateEvaluate).                               *)
(*                                                                         *)
(* The module's doctests print str reprs without a b prefix and index a    *)
(* str to get a one-character str, so the functions are modelled with the  *)
(* semantics under which those doctests pass (CPython 2.7, asserts         *)
(* enabled): struct.pack raises struct.error on an out-of-range value and  *)
(* a failed assert raises AssertionError.                                  *)
(*                                                                         *)
(* Python values are tagged records, because the template walk dispatches  *)
(* on the runtime type of what it meets:                                   *)
(*   int       [kind |-> "int",      value |-> n]                          *)
(*   Pixel     [kind |-> "Pixel",    value |-> v]                          *)
(*   list      [kind |-> "list",     items |-> <<...>>]                    *)
(*   Repeat    [kind |-> "Repeat",   count |-> obj, contents |-> obj]      *)
(*   lambda    [kind |-> "function", name |-> "..."]                       *)
(* A str buffer is a sequence of byte values; gen() returns a sequence of  *)
(* integers.  A call either returns ([ok |-> TRUE, ...]) or raises         *)
(* ([ok |-> FALSE, exc |-> "..."]).                                        *)
(***************************************************************************)
EXTENDS Integers, Sequences, FiniteSets, TLC

VARIABLES pc, node, ctx, enc, tail, buf, dec, out, flat, ev

vars == <<pc, node, ctx, enc, tail, buf, dec, out, flat, ev>>

----------------------------------------------------------------------------
(* Bounds of the explored inputs.                                          *)

\* largest number of nodes of a tree handed to encode
MaxNodes == 3
\* largest number of nodes of a tree handed to gen
MaxGenNodes == 3
\* largest number of nodes of a template handed to TemplateEvaluate
MaxTemplateNodes == 3
\* longest raw buffer handed to DecodeBytes
MaxBufLen == 8

----------------------------------------------------------------------------
(* Program constants and the Python object model.                          *)

REPEAT_OP == 1

PIXEL_OP == 2

None == [kind |-> "None"]

PyInt(n) == [kind |-> "int", value |-> n]

PyList(items) == [kind |-> "list", items |-> items]

PyFunction(name) == [kind |-> "function", name |-> name]

Pixel(value) == [kind |-> "Pixel", value |-> value]

Repeat(count, contents) == [kind |-> "Repeat", count |-> count, contents |-> contents]

Raise(exc) == [ok |-> FALSE, exc |-> exc]

Return(value) == [ok |-> TRUE, value |-> value]

ReturnBytes(bytes) == [ok |-> TRUE, bytes |-> bytes]

ReturnPair(n, rest) == [ok |-> TRUE, node |-> n, rest |-> rest]

\* Pixel.__new__: the two asserts, then the int value is kept
PixelNew(value) ==
    IF value >= 0 /\ value < 256 THEN Return(Pixel(value)) ELSE Raise("AssertionError")

\* iter(o): a list yields its items, a namedtuple its fields; an int (and so a
\* Pixel) or a function is not iterable
Iter(o) ==
    CASE o.kind = "list" -> Return(o.items)
      [] o.kind = "Repeat" -> Return(<<o.count, o.contents>>)
      [] OTHER -> Raise("TypeError")

\* Repeat.__new__(cls, *args): a single argument is unpacked into the two fields
RepeatNew(args) ==
    LET unpacked == IF Len(args) = 1 THEN Iter(args[1]) ELSE Return(args)
    IN  IF ~unpacked.ok THEN unpacked
        ELSE IF Len(unpacked.value) # 2 THEN Raise("TypeError")
        ELSE Return(Repeat(unpacked.value[1], unpacked.value[2]))

\* list(x): a new list of the items x yields
ListNew(x) ==
    LET it == Iter(x)
    IN  IF it.ok THEN Return(PyList(it.value)) ELSE it

----------------------------------------------------------------------------
(* struct.pack / struct.unpack, little-endian standard sizes.              *)

\* format B: one unsigned byte
PackB(v) ==
    IF v >= 0 /\ v <= 255 THEN ReturnBytes(<<v>>) ELSE Raise("struct.error")

\* format H written most significant byte first
PackHBigEndian(v) ==
    IF v >= 0 /\ v <= 65535 THEN ReturnBytes(<<v \div 256, v % 256>>)
    ELSE Raise("struct.error")

\* format H keeping the low 16 bits of an out-of-range value
PackHMasked(v) == ReturnBytes(<<v % 256, (v \div 256) % 256>>)

\* format <H: unsigned 16 bit, least significant byte first
PackH(v) ==
    IF v >= 0 /\ v <= 65535 THEN ReturnBytes(<<v % 256, v \div 256>>)
    ELSE Raise("struct.error")

\* format H read most significant byte first
UnpackHBigEndian(b) == 256 * b[1] + b[2]

\* format <H: two bytes, least significant first
UnpackH(b) == b[1] + 256 * b[2]

\* the packed fields joined, or the first error
RECURSIVE PackAll(_)
PackAll(parts) ==
    IF parts = <<>> THEN ReturnBytes(<<>>)
    ELSE IF ~Head(parts).ok THEN Head(parts)
    ELSE LET rest == PackAll(Tail(parts))
         IN  IF rest.ok THEN ReturnBytes(Head(parts).bytes \o rest.bytes) ELSE rest

----------------------------------------------------------------------------
(* encode: Pixel.encode, Repeat.encode.                                    *)

RECURSIVE Encode(_)
RECURSIVE EncodeContents(_)
RECURSIVE DecodeBytes(_)
RECURSIVE DecodeContents(_, _)
RECURSIVE Gen(_)
RECURSIVE GenContents(_, _)
RECURSIVE DecodeContentsPartial(_, _)
RECURSIVE DecodeContentsNoAdvance(_, _)

\* Pixel.encode: struct.pack("<BBBB", PIXEL_OP, self, self, self)
PixelEncode(self) ==
    PackAll(<<PackB(PIXEL_OP), PackB(self.value), PackB(self.value), PackB(self.value)>>)

\* Repeat.encode, lines 125-126: struct.pack("<BBH", REPEAT_OP,
\* len(self.contents), self.count); assert len(data[0]) == 4
RepeatHeader(self) ==
    LET packed == PackAll(<<PackB(REPEAT_OP), PackB(Len(self.contents.items)),
                            PackH(self.count.value)>>)
    IN  IF ~packed.ok THEN packed
        ELSE IF Len(packed.bytes) # 4 THEN Raise("AssertionError")
        ELSE packed

\* Repeat.encode, lines 127-129: each child's encode() in the order of
\* contents, joined; the first child that raises ends the loop.  The list is
\* walked in two halves, left before right, which keeps the evaluation depth
\* logarithmic in the number of children (a list may hold 255 of them).
EncodeContents(items) ==
    IF Len(items) = 0 THEN ReturnBytes(<<>>)
    ELSE IF Len(items) = 1 THEN Encode(items[1])
    ELSE LET h == Len(items) \div 2
             left == EncodeContents(SubSeq(items, 1, h))
             right == EncodeContents(SubSeq(items, h + 1, Len(items)))
         IN  IF ~left.ok THEN left
             ELSE IF ~right.ok THEN right
             ELSE ReturnBytes(left.bytes \o right.bytes)

\* Repeat.encode
RepeatEncode(self) ==
    LET header == RepeatHeader(self)
        body == EncodeContents(self.contents.items)
    IN  IF ~header.ok THEN header
        ELSE IF ~body.ok THEN body
        ELSE ReturnBytes(header.bytes \o body.bytes)

\* i.encode(): the method of the object's class
Encode(o) ==
    CASE o.kind = "Pixel" -> PixelEncode(o)
      [] o.kind = "Repeat" -> RepeatEncode(o)
      [] OTHER -> Raise("AttributeError")

----------------------------------------------------------------------------
(* DecodeBytes.                                                            *)

\* data[:n]
Take(data, n) == SubSeq(data, 1, IF Len(data) < n THEN Len(data) ELSE n)

\* a slice that leaves nothing behind
DropAll(data, n) == <<>>

\* data[n:]
Drop(data, n) == SubSeq(data, n + 1, Len(data))

\* the Pixel branch without the assert on the three bytes
DecodePixelUnchecked(op, data) ==
    LET p == PixelNew(op[2])
    IN  IF ~p.ok THEN p ELSE ReturnPair(p.value, data)

\* DecodeBytes, lines 147-149: the PIXEL_OP branch
DecodePixel(op, data) ==
    LET r == op[2]
        g == op[3]
        b == op[4]
    IN  IF ~(r = g /\ g = b) THEN Raise("AssertionError")
        ELSE LET p == PixelNew(r)
             IN  IF ~p.ok THEN p ELSE ReturnPair(p.value, data)

\* the loop that gives up on a child it cannot decode and hands back the rest
DecodeContentsPartial(elements, data) ==
    IF elements = 0 THEN ReturnPair(<<>>, data)
    ELSE IF elements = 1
    THEN LET r == DecodeBytes(data)
         IN  IF ~r.ok THEN ReturnPair(<<>>, <<>>) ELSE ReturnPair(<<r.node>>, r.rest)
    ELSE LET h == elements \div 2
             left == DecodeContentsPartial(h, data)
             right == DecodeContentsPartial(elements - h, left.rest)
         IN  ReturnPair(left.node \o right.node, right.rest)

\* the loop that does not hand the data one call left to the next call
DecodeContentsNoAdvance(elements, data) ==
    IF elements = 0 THEN ReturnPair(<<>>, data)
    ELSE IF elements = 1
    THEN LET r == DecodeBytes(data)
         IN  IF ~r.ok THEN r ELSE ReturnPair(<<r.node>>, r.rest)
    ELSE LET h == elements \div 2
             left == DecodeContentsNoAdvance(h, data)
             right == DecodeContentsNoAdvance(elements - h, data)
         IN  IF ~left.ok THEN left
             ELSE IF ~right.ok THEN right
             ELSE ReturnPair(left.node \o right.node, right.rest)

\* DecodeBytes, lines 154-157: for i in range(0, elements): a, data =
\* DecodeBytes(data); contents.append(a).  Each call takes the data the one
\* before left, and the first call that raises ends the loop.  The range is
\* walked in two halves, left before right, which keeps the evaluation depth
\* logarithmic in elements (up to 255).
DecodeContents(elements, data) ==
    IF elements = 0 THEN ReturnPair(<<>>, data)
    ELSE IF elements = 1
    THEN LET r == DecodeBytes(data)
         IN  IF ~r.ok THEN r ELSE ReturnPair(<<r.node>>, r.rest)
    ELSE LET h == elements \div 2
             left == DecodeContents(h, data)
             right == DecodeContents(elements - h, left.rest)
         IN  IF ~left.ok THEN left
             ELSE IF ~right.ok THEN right
             ELSE ReturnPair(left.node \o right.node, right.rest)

\* DecodeBytes, lines 151-158: the REPEAT_OP branch
DecodeRepeat(op, data) ==
    LET elements == op[2]
        times == UnpackH(SubSeq(op, 3, 4))
    IN  IF ~(elements >= 0) \/ ~(times >= 0) THEN Raise("AssertionError")
        ELSE LET c == DecodeContents(elements, data)
             IN  IF ~c.ok THEN c
                 ELSE LET n == RepeatNew(<<PyInt(times), PyList(c.node)>>)
                      IN  IF ~n.ok THEN n ELSE ReturnPair(n.value, c.rest)

\* DecodeBytes, lines 143-144: op, data = data[:4], data[4:]; assert len(op) == 4
SplitHeader(data) ==
    IF Len(Take(data, 4)) # 4 THEN Raise("AssertionError")
    ELSE ReturnPair(Take(data, 4), Drop(data, 4))

DecodeBytes(data) ==
    LET h == SplitHeader(data)
    IN  IF ~h.ok THEN h
        ELSE LET optype == h.node[1]
             IN  IF optype = PIXEL_OP THEN DecodePixel(h.node, h.rest)
                 ELSE IF optype = REPEAT_OP THEN DecodeRepeat(h.node, h.rest)
                 ELSE Raise("AssertionError")

----------------------------------------------------------------------------
(* gen: Pixel.gen, Repeat.gen.                                             *)

\* n * s for a Python list: s joined to itself n times, empty when n <= 0
RECURSIVE ListTimes(_, _)
ListTimes(n, s) == IF n <= 0 THEN <<>> ELSE s \o ListTimes(n - 1, s)

\* Pixel.gen: [int(self)]
PixelGen(self) == <<self.value>>

\* each child repeated on its own, then joined
RECURSIVE GenEachRepeated(_, _, _)
GenEachRepeated(n, items, contents) ==
    IF items = <<>> THEN contents
    ELSE GenEachRepeated(n, Tail(items), contents \o ListTimes(n, Gen(Head(items))))

\* Repeat.gen with the repetition applied per child
RepeatGenPerChild(self) ==
    GenEachRepeated(self.count.value, self.contents.items, <<>>)

\* Repeat.gen, lines 109-110: contents += i.gen() for each child in order
GenContents(items, contents) ==
    IF items = <<>> THEN contents
    ELSE GenContents(Tail(items), contents \o Gen(Head(items)))

\* Repeat.gen: int(self.count) * contents
RepeatGen(self) ==
    ListTimes(self.count.value, GenContents(self.contents.items, <<>>))

\* i.gen(): the method of the object's class
Gen(o) ==
    IF o.kind = "Pixel" THEN PixelGen(o) ELSE RepeatGen(o)

----------------------------------------------------------------------------
(* TemplateEvaluate.                                                       *)

\* o(t) for the lambdas of the doctests: lambda t: Pixel(t), lambda t: 10-t,
\* lambda t: 10+t
Call(o, t) ==
    CASE o.name = "pixel_t" -> PixelNew(t)
      [] o.name = "ten_minus_t" -> Return(PyInt(10 - t))
      [] o.name = "ten_plus_t" -> Return(PyInt(10 + t))

\* o.__class__(*args) for the two classes the walk can iterate
New(cls, args) ==
    IF cls = "Repeat" THEN RepeatNew(args)
    ELSE IF Len(args) = 0 THEN Return(PyList(<<>>))
    ELSE IF Len(args) = 1 THEN ListNew(args[1])
    ELSE Raise("TypeError")

RECURSIVE TemplateEvaluate(_, _)

\* TemplateEvaluate, lines 193-195: args.append(TemplateEvaluate(arg, t)) for
\* each arg the object yields
RECURSIVE EvaluateArgs(_, _, _)
EvaluateArgs(items, t, args) ==
    IF items = <<>> THEN Return(args)
    ELSE LET a == TemplateEvaluate(Head(items), t)
         IN  IF ~a.ok THEN a ELSE EvaluateArgs(Tail(items), t, Append(args, a.value))

\* TemplateEvaluate, lines 188-200; a TypeError raised anywhere in the try
\* block returns o itself
TemplateEvaluate(o, t) ==
    IF o.kind = "function" THEN Call(o, t)
    ELSE LET it == Iter(o)
         IN  IF ~it.ok THEN Return(o)
             ELSE LET args == EvaluateArgs(it.value, t, <<>>)
                  IN  IF ~args.ok
                      THEN IF args.exc = "TypeError" THEN Return(o) ELSE args
                      ELSE LET made == IF Len(args.value) = 1
                                       THEN New(o.kind, args.value)
                                       ELSE New(o.kind, <<PyList(args.value)>>)
                           IN  IF ~made.ok /\ made.exc = "TypeError" THEN Return(o)
                               ELSE made

----------------------------------------------------------------------------
(* The inputs explored.                                                    *)

\* the sequences of trees with m nodes in all, and the trees with n nodes:
\* a leaf, or a Repeat over a sequence of smaller trees
RECURSIVE TreesOfSize(_, _, _)
RECURSIVE Forests(_, _, _)
Forests(m, leaves, counts) ==
    IF m = 0 THEN {<<>>}
    ELSE UNION {{<<t>> \o f : t \in TreesOfSize(k, leaves, counts),
                              f \in Forests(m - k, leaves, counts)} : k \in 1..m}

TreesOfSize(n, leaves, counts) ==
    IF n = 1 THEN leaves \cup {Repeat(c, PyList(<<>>)) : c \in counts}
    ELSE {Repeat(c, PyList(f)) : c \in counts, f \in Forests(n - 1, leaves, counts)}

TreesUpTo(n, leaves, counts) == UNION {TreesOfSize(k, leaves, counts) : k \in 1..n}

\* a Repeat over a run of w equal pixels: the widest list one byte can count,
\* and one child more
WideRepeat(w) == Repeat(PyInt(1), PyList([k \in 1..w |-> Pixel(0)]))

\* trees handed to encode: the extreme pixels BLACK and WHITE, counts at both
\* ends of 16 bits, one with distinct low and high bytes, and one past the end
CodecLeaves == {Pixel(0), Pixel(255), WideRepeat(255), WideRepeat(256)}

CodecCounts == {PyInt(0), PyInt(258), PyInt(65535), PyInt(65536)}

CodecTrees == TreesUpTo(MaxNodes, CodecLeaves, CodecCounts)

\* what may follow a document in a shared buffer: nothing, padding, or the
\* encoding of another document
TailDocs == {Pixel(7), Repeat(PyInt(2), PyList(<<Pixel(0)>>))}

Tails == {<<>>, <<0>>} \cup {Encode(d).bytes : d \in TailDocs}

\* raw buffers handed to DecodeBytes: an unknown op code, the two known ones
ByteVals == {0, 1, 2}

RawBuffers == UNION {[1..k -> ByteVals] : k \in 0..MaxBufLen}

\* trees handed to gen (the pixels and a count of the doctests)
GenLeaves == {Pixel(1), Pixel(10)}

GenCounts == {PyInt(0), PyInt(2), PyInt(3)}

GenTrees == TreesUpTo(MaxGenNodes, GenLeaves, GenCounts)

\* templates: a placeholder may stand for a child or for a count
TemplateLeaves == {Pixel(1), Pixel(2), PyFunction("pixel_t")}

TemplateCounts == {PyInt(2), PyFunction("ten_minus_t"), PyFunction("ten_plus_t")}

Templates == TreesUpTo(MaxTemplateNodes, TemplateLeaves, TemplateCounts)

Contexts == {1, 5, 9}

----------------------------------------------------------------------------
(* State machine: a caller builds an input, then calls the functions.      *)

Idle ==
    /\ enc = None
    /\ tail = <<>>
    /\ dec = None
    /\ out = None
    /\ ev = None
    /\ flat = <<>>

\* a tree built by the caller, to be encoded
InitCodec ==
    /\ pc = "built"
    /\ node \in CodecTrees
    /\ ctx = 0
    /\ buf = <<>>
    /\ Idle

\* a buffer read from storage, to be decoded
InitWire ==
    /\ pc = "received"
    /\ node = None
    /\ ctx = 0
    /\ buf \in RawBuffers
    /\ Idle

\* a tree built by the caller, to be flattened
InitGen ==
    /\ pc = "built"
    /\ node \in GenTrees
    /\ ctx = 0
    /\ buf = <<>>
    /\ Idle

\* a template written by the caller and the context it is evaluated at
InitTemplate ==
    /\ pc = "built"
    /\ node \in Templates
    /\ ctx \in Contexts
    /\ buf = <<>>
    /\ Idle

\* node.encode()
CallEncode ==
    /\ pc = "built"
    /\ enc' = Encode(node)
    /\ pc' = IF enc'.ok THEN "encoded" ELSE "encode_failed"
    /\ UNCHANGED <<node, ctx, tail, buf, dec, out, flat, ev>>

\* the encoded document is put in a buffer, followed by a tail
Transmit ==
    /\ pc = "encoded"
    /\ tail' \in Tails
    /\ buf' = enc.bytes \o tail'
    /\ pc' = "received"
    /\ UNCHANGED <<node, ctx, enc, dec, out, flat, ev>>

\* DecodeBytes(buf)
CallDecodeBytes ==
    /\ pc = "received"
    /\ dec' = DecodeBytes(buf)
    /\ pc' = "decoded"
    /\ UNCHANGED <<node, ctx, enc, tail, buf, out, flat, ev>>

\* DecodeBytes on the remainder the first call returned
CallDecodeRest ==
    /\ pc = "decoded"
    /\ dec.ok
    /\ out' = DecodeBytes(dec.rest)
    /\ pc' = "decoded_rest"
    /\ UNCHANGED <<node, ctx, enc, tail, buf, dec, flat, ev>>

\* encode() of the tree a decode returned
CallReEncode ==
    /\ pc = "decoded"
    /\ dec.ok
    /\ out' = Encode(dec.node)
    /\ pc' = "reencoded"
    /\ UNCHANGED <<node, ctx, enc, tail, buf, dec, flat, ev>>

\* node.gen()
CallGen ==
    /\ pc = "built"
    /\ flat' = Gen(node)
    /\ pc' = "flattened"
    /\ UNCHANGED <<node, ctx, enc, tail, buf, dec, out, ev>>

\* TemplateEvaluate(node, ctx)
CallTemplateEvaluate ==
    /\ pc = "built"
    /\ ev' = TemplateEvaluate(node, ctx)
    /\ pc' = "evaluated"
    /\ UNCHANGED <<node, ctx, enc, tail, buf, dec, out, flat>>

NextCodec == CallEncode \/ Transmit \/ CallDecodeBytes \/ CallDecodeRest

NextWire == CallDecodeBytes \/ CallReEncode

NextGen == CallGen

NextTemplate == CallTemplateEvaluate

SpecCodec == InitCodec /\ [][NextCodec]_vars

SpecWire == InitWire /\ [][NextWire]_vars

SpecGen == InitGen /\ [][NextGen]_vars

SpecTemplate == InitTemplate /\ [][NextTemplate]_vars

----------------------------------------------------------------------------
(* What the claims speak of, stated apart from the functions above.        *)

\* a tree within the ranges of the format
RECURSIVE IsValid(_)
IsValid(o) ==
    IF o.kind = "Pixel" THEN o.value \in 0..255
    ELSE /\ o.kind = "Repeat"
         /\ o.count.value \in 0..65535
         /\ Len(o.contents.items) <= 255
         /\ \A i \in 1..Len(o.contents.items) : IsValid(o.contents.items[i])

\* a tree holding, at any depth, a Repeat whose count or number of children
\* does not fit its header field
RECURSIVE HasOutOfRange(_)
HasOutOfRange(o) ==
    /\ o.kind = "Repeat"
    /\ \/ o.count.value > 65535
       \/ Len(o.contents.items) > 255
       \/ \E i \in 1..Len(o.contents.items) : HasOutOfRange(o.contents.items[i])

\* the sequences of a sequence joined in order
RECURSIVE Join(_)
Join(ss) ==
    IF Len(ss) = 0 THEN <<>>
    ELSE IF Len(ss) = 1 THEN ss[1]
    ELSE Join(SubSeq(ss, 1, Len(ss) \div 2)) \o Join(SubSeq(ss, Len(ss) \div 2 + 1, Len(ss)))

\* the wire layout of a valid tree, as the format's table gives it
RECURSIVE WireLayout(_)
WireLayout(o) ==
    IF o.kind = "Pixel" THEN <<2, o.value, o.value, o.value>>
    ELSE <<1, Len(o.contents.items), o.count.value % 256, o.count.value \div 256>>
         \o Join([i \in 1..Len(o.contents.items) |-> WireLayout(o.contents.items[i])])

\* the sum of a sequence of numbers
RECURSIVE Sum(_)
Sum(ns) == IF ns = <<>> THEN 0 ELSE Head(ns) + Sum(Tail(ns))

\* the number of nodes of a tree
RECURSIVE NodeCount(_)
NodeCount(o) ==
    IF o.kind = "Pixel" THEN 1
    ELSE 1 + Sum([i \in 1..Len(o.contents.items) |-> NodeCount(o.contents.items[i])])

\* the length of the sequence a tree denotes: 1 for a Pixel, count times the
\* sum of the children's lengths for a Repeat
RECURSIVE FlatLen(_)
FlatLen(o) ==
    IF o.kind = "Pixel" THEN 1
    ELSE o.count.value * Sum([i \in 1..Len(o.contents.items) |-> FlatLen(o.contents.items[i])])

\* element i (from 1) of the sequence a tree denotes: a Repeat's elements
\* cycle through its children's elements taken as one run
RECURSIVE FlatAt(_, _)
RECURSIVE RunAt(_, _)
RunAt(items, j) ==
    IF j <= FlatLen(Head(items)) THEN FlatAt(Head(items), j)
    ELSE RunAt(Tail(items), j - FlatLen(Head(items)))

FlatAt(o, i) ==
    IF o.kind = "Pixel" THEN o.value
    ELSE RunAt(o.contents.items, ((i - 1) % (FlatLen(o) \div o.count.value)) + 1)

\* the walk over the 4-byte records of a buffer that a decode of one node
\* makes when no record is rejected: each record visited settles one pending
\* node, and a Repeat record adds as many pending nodes as it declares.
\* visited: the offsets of the records reached; pending: the nodes still owed
\* when the walk ends or fewer than 4 bytes are left.
RECURSIVE RecordWalk(_, _, _, _)
RecordWalk(b, at, pending, visited) ==
    IF pending = 0 \/ Len(b) - at < 4 THEN [visited |-> visited, pending |-> pending]
    ELSE RecordWalk(b, at + 4,
                    pending - 1 + (IF b[at + 1] = 1 THEN b[at + 2] ELSE 0),
                    visited \cup {at})

\* the buffer ends before the nodes its headers declare
IsTruncated(b) == RecordWalk(b, 0, 1, {}).pending > 0

\* the record at offset at is a Pixel record whose payload bytes differ
IsColourRecord(b, at) ==
    /\ b[at + 1] = 2
    /\ ~(b[at + 2] = b[at + 3] /\ b[at + 3] = b[at + 4])

----------------------------------------------------------------------------
(* Claims on the codec: a tree is encoded, stored with a tail, decoded.    *)

\* C1: round trip. Every valid tree encodes, and decoding its encoding alone
\* returns the tree itself and an empty remainder.
C1_RoundTrip ==
    /\ IsValid(node) => pc # "encode_failed"
    /\ (pc \in {"decoded", "decoded_rest"} /\ tail = <<>> /\ IsValid(node))
           => dec = ReturnPair(node, <<>>)

C1_Witness ==
    /\ pc = "decoded"
    /\ tail = <<>>
    /\ node = Repeat(PyInt(65535), PyList(<<Repeat(PyInt(258), PyList(<<>>)), Pixel(255)>>))
    /\ dec.ok
    /\ dec.rest = <<>>

\* C2: decode consumes only the prefix that encodes one node. Whatever tail
\* follows the encoding of a valid tree, decode returns the tree and the tail
\* unchanged; when the tail is another document, decoding the remainder
\* returns that document.
C2_PrefixOnly ==
    /\ (pc \in {"decoded", "decoded_rest"} /\ IsValid(node)) => dec = ReturnPair(node, tail)
    /\ (pc = "decoded_rest" /\ IsValid(node)) =>
           \A d \in TailDocs : tail = WireLayout(d) => out = ReturnPair(d, <<>>)

C2_Witness ==
    /\ pc = "decoded_rest"
    /\ node.kind = "Repeat"
    /\ Len(node.contents.items) = 2
    /\ tail = <<1, 1, 2, 0, 2, 0, 0, 0>>
    /\ dec.ok
    /\ dec.rest = tail
    /\ out.ok
    /\ out.node = Repeat(PyInt(2), PyList(<<Pixel(0)>>))

\* C8: a tree holding, at any depth, a Repeat with count > 65535 or more than
\* 255 children is rejected when it is encoded: encode raises and returns no
\* buffer, so no header ever holds a wrapped count or child count.
C8_OutOfRangeRejected ==
    (pc # "built" /\ HasOutOfRange(node)) =>
        /\ pc = "encode_failed"
        /\ enc = Raise("struct.error")

C8_Witness ==
    /\ pc = "encode_failed"
    /\ node.kind = "Repeat"
    /\ node.count.value <= 65535
    /\ Len(node.contents.items) = 2
    /\ node.contents.items[1].kind = "Pixel"
    /\ node.contents.items[2] = Repeat(PyInt(65536), PyList(<<>>))
    /\ ~enc.ok

\* C9: wire layout. A valid Repeat encodes to [1, number of children, count
\* mod 256, count div 256] followed by its children's encodings in order,
\* each complete before the next begins; a Pixel(v) encodes to [2, v, v, v].
C9_WireLayout ==
    (pc # "built" /\ IsValid(node)) => enc = ReturnBytes(WireLayout(node))

C9_Witness ==
    /\ pc = "encoded"
    /\ node = Repeat(PyInt(258), PyList(<<Pixel(255), Pixel(0)>>))
    /\ enc.bytes = <<1, 2, 2, 1, 2, 255, 255, 255, 2, 0, 0, 0>>

----------------------------------------------------------------------------
(* Claims on decoding a raw buffer.                                        *)

\* C6: truncation fails without a partial result. A buffer shorter than 4
\* bytes, or one that ends before the children its Repeat headers declare (at
\* any depth), makes DecodeBytes raise; no (node, remainder) pair is returned.
C6_TruncationFails ==
    (pc # "received" /\ (Len(buf) < 4 \/ IsTruncated(buf))) =>
        dec = Raise("AssertionError")

C6_Witness ==
    /\ pc = "decoded"
    /\ buf = <<1, 2, 0, 0, 2, 1, 1, 1>>
    /\ ~dec.ok

\* C7: grayscale invariant on decode. When the decode reaches a Pixel record
\* whose three payload bytes are not all equal, at the top level or inside a
\* Repeat body, the whole decode raises and returns no tree; so every Pixel
\* record consumed by a successful decode holds three equal bytes.
C7_GrayscaleOnDecode ==
    /\ (pc # "received" /\ \E at \in RecordWalk(buf, 0, 1, {}).visited : IsColourRecord(buf, at))
           => dec = Raise("AssertionError")
    /\ (pc # "received" /\ dec.ok) =>
           \A at \in 0..(Len(buf) - Len(dec.rest) - 4) :
               at % 4 = 0 => ~IsColourRecord(buf, at)

C7_Witness ==
    /\ pc = "decoded"
    /\ buf = <<1, 1, 2, 0, 2, 0, 1, 0>>
    /\ ~dec.ok

\* C10: reverse round trip. When DecodeBytes returns (node, rest) for a
\* buffer, node.encode() followed by rest is the buffer: the bytes consumed
\* are the encoding of the returned tree, 4 for each of its nodes, and rest is
\* a suffix of the buffer.
C10_ReverseRoundTrip ==
    /\ (pc # "received" /\ dec.ok) =>
           /\ Len(dec.rest) <= Len(buf)
           /\ dec.rest = SubSeq(buf, Len(buf) - Len(dec.rest) + 1, Len(buf))
           /\ Len(buf) - Len(dec.rest) = 4 * NodeCount(dec.node)
    /\ pc = "reencoded" =>
           /\ out.ok
           /\ out.bytes \o dec.rest = buf

C10_Witness ==
    /\ pc = "reencoded"
    /\ buf = <<1, 1, 2, 1, 2, 2, 2, 2>>
    /\ dec.node = Repeat(PyInt(258), PyList(<<Pixel(2)>>))
    /\ out.bytes = buf

----------------------------------------------------------------------------
(* Claim on gen.                                                           *)

\* C3: flatten tiles the whole run of the children. gen() of a Repeat is the
\* in-order run of its children's gen() repeated count times end to end (not
\* each child repeated on its own): its length is count times the sum of the
\* children's lengths and element i is element ((i - 1) mod run length) + 1 of
\* the run; it is empty when count is 0. gen() of Pixel(v) is [v].
C3_GenTiles ==
    pc = "flattened" =>
        /\ Len(flat) = FlatLen(node)
        /\ \A i \in 1..Len(flat) : flat[i] = FlatAt(node, i)
        /\ (node.kind = "Repeat" /\ node.count.value = 0) => flat = <<>>
        /\ node.kind = "Pixel" => flat = <<node.value>>

C3_Witness ==
    /\ pc = "flattened"
    /\ node = Repeat(PyInt(3), PyList(<<Pixel(1), Pixel(10)>>))
    /\ flat = <<1, 10, 1, 10, 1, 10>>

----------------------------------------------------------------------------
(* Claims on TemplateEvaluate.                                             *)

\* a template without a placeholder anywhere
RECURSIVE IsConcrete(_)
IsConcrete(o) ==
    CASE o.kind = "Pixel" -> TRUE
      [] o.kind = "int" -> TRUE
      [] o.kind = "list" -> \A i \in 1..Len(o.items) : IsConcrete(o.items[i])
      [] o.kind = "Repeat" -> IsConcrete(o.count) /\ IsConcrete(o.contents)
      [] OTHER -> FALSE

\* a concrete tree: Pixels, and Repeats of an int count over a list of trees
RECURSIVE IsTree(_)
IsTree(o) ==
    CASE o.kind = "Pixel" -> TRUE
      [] o.kind = "Repeat" ->
            /\ o.count.kind = "int"
            /\ o.contents.kind = "list"
            /\ \A i \in 1..Len(o.contents.items) : IsTree(o.contents.items[i])
      [] OTHER -> FALSE

\* the template with every placeholder position resolved at t, by cases on
\* the variant: a placeholder is called, a Repeat is rebuilt from its resolved
\* count and resolved children, a leaf stays
RECURSIVE Resolved(_, _)
Resolved(o, t) ==
    CASE o.kind = "function" -> Call(o, t).value
      [] o.kind = "Repeat" ->
            Repeat(Resolved(o.count, t),
                   PyList([i \in 1..Len(o.contents.items) |-> Resolved(o.contents.items[i], t)]))
      [] OTHER -> o

\* C4: template identity. A template without placeholders evaluates to
\* itself at every context value, at any nesting depth and with any number
\* of children, a Repeat whose only child is a Repeat included.
C4_TemplateIdentity ==
    (pc = "evaluated" /\ IsConcrete(node)) => ev = Return(node)

\* C5: evaluating a Repeat-shaped template returns a concrete Repeat whose
\* count is the evaluated count and whose children are the evaluated
\* children, as many and in the same order, for any number of children (one
\* included), with no placeholder left.
C5_RepeatResolved ==
    (pc = "evaluated" /\ node.kind = "Repeat") =>
        /\ ev.ok
        /\ IsTree(ev.value)
        /\ ev.value = Resolved(node, ctx)

====
